---------------------------- MODULE Spec2Model ----------------------------
(***************************************************************************)
(* PRESENT block cipher (kurtfu/present), src/src/present.c.               *)
(*                                                                         *)
(* Buffers are functions from C indices (0 .. size-1) to bytes.  The key   *)
(* register is accessed by the rotation code through a uint16_t pointer;   *)
(* the machine model is a little-endian host (the one the test vectors of  *)
(* test/test_main.c are written for): block i is key[2i] + 256*key[2i+1].  *)
(* The build configuration (key width, PRESENT_ROUND_COUNT) is part of the *)
(* state, chosen in Init, because the claims quantify over it.             *)
(***************************************************************************)
EXTENDS Integers, Sequences, FiniteSets, TLC

(***************************************************************************)
(* Program constants                                                       *)
(***************************************************************************)
PRESENT_CRYPT_SIZE == 8

PRESENT_ROUND_COUNT_MIN == 1

PRESENT_ROUND_COUNT_MAX == 31

PRESENT_ROTATE_BUFF_SIZE_RIGHT == 4

PRESENT_ROTATION_POINT_LEFT == 3

\* variant: the last block is not refilled from the buffer
PRESENT_UNROTATED_BLOCK_COUNT_RIGHT_two == PRESENT_ROTATE_BUFF_SIZE_RIGHT - 2

PRESENT_UNROTATED_BLOCK_COUNT_RIGHT == 3

PRESENT_KEY_SIZE(bits) == bits \div 8

\* variant: the round key is read from the low end of the register
PRESENT_KEY_OFFSET_low(bits) == 0

PRESENT_KEY_OFFSET(bits) == PRESENT_KEY_SIZE(bits) - PRESENT_CRYPT_SIZE

PRESENT_KEY_BLOCK_SIZE(bits) == bits \div 16

PRESENT_ROTATE_BUFF_SIZE_LEFT(bits) == IF bits = 80 THEN 2 ELSE 5

\* variant: the 80-bit rotation point in both key widths
PRESENT_ROTATION_POINT_RIGHT_80(bits) == 1

PRESENT_ROTATION_POINT_RIGHT(bits) == IF bits = 80 THEN 1 ELSE 4

\* variant: the 80-bit block count in both key widths
PRESENT_UNROTATED_BLOCK_COUNT_LEFT_80(bits) == 1

PRESENT_UNROTATED_BLOCK_COUNT_LEFT(bits) == IF bits = 80 THEN 1 ELSE 4

PRESENT_ROTATION_LSB_OFFSET(bits) == IF bits = 80 THEN 2 ELSE 5

\* variant: both parts of a rotated block come from the same block
PRESENT_ROTATION_MSB_OFFSET_same(bits) == IF bits = 80 THEN 2 ELSE 5

PRESENT_ROTATION_MSB_OFFSET(bits) == IF bits = 80 THEN 1 ELSE 4

\* variant: the first two entries of the table are exchanged
g_sbox_swapped == [n \in 0..15 |->
             CASE n = 0 -> 5  [] n = 1 -> 12 [] n = 2 -> 6  [] n = 3 -> 11
               [] n = 4 -> 9  [] n = 5 -> 0  [] n = 6 -> 10 [] n = 7 -> 13
               [] n = 8 -> 3  [] n = 9 -> 14 [] n = 10 -> 15 [] n = 11 -> 8
               [] n = 12 -> 4 [] n = 13 -> 7 [] n = 14 -> 1 [] n = 15 -> 2]

g_sbox == [n \in 0..15 |->
             CASE n = 0 -> 12 [] n = 1 -> 5  [] n = 2 -> 6  [] n = 3 -> 11
               [] n = 4 -> 9  [] n = 5 -> 0  [] n = 6 -> 10 [] n = 7 -> 13
               [] n = 8 -> 3  [] n = 9 -> 14 [] n = 10 -> 15 [] n = 11 -> 8
               [] n = 12 -> 4 [] n = 13 -> 7 [] n = 14 -> 1 [] n = 15 -> 2]

\* variant: the last two entries of the inverse table are exchanged
g_sbox_inv_swapped == [n \in 0..15 |->
             CASE n = 0 -> 5  [] n = 1 -> 14 [] n = 2 -> 15 [] n = 3 -> 8
               [] n = 4 -> 12 [] n = 5 -> 1  [] n = 6 -> 2  [] n = 7 -> 13
               [] n = 8 -> 11 [] n = 9 -> 4  [] n = 10 -> 6 [] n = 11 -> 3
               [] n = 12 -> 0 [] n = 13 -> 7 [] n = 14 -> 10 [] n = 15 -> 9]

g_sbox_inv == [n \in 0..15 |->
             CASE n = 0 -> 5  [] n = 1 -> 14 [] n = 2 -> 15 [] n = 3 -> 8
               [] n = 4 -> 12 [] n = 5 -> 1  [] n = 6 -> 2  [] n = 7 -> 13
               [] n = 8 -> 11 [] n = 9 -> 4  [] n = 10 -> 6 [] n = 11 -> 3
               [] n = 12 -> 0 [] n = 13 -> 7 [] n = 14 -> 9 [] n = 15 -> 10]

(***************************************************************************)
(* C integer operators on uint8_t / uint16_t values                        *)
(***************************************************************************)
Pow2(n) == CASE n = 0 -> 1 [] n = 1 -> 2 [] n = 2 -> 4 [] n = 3 -> 8
             [] n = 4 -> 16 [] n = 5 -> 32 [] n = 6 -> 64 [] n = 7 -> 128
             [] n = 8 -> 256 [] n = 13 -> 8192 [] n = 16 -> 65536

RECURSIVE BitOp(_, _, _, _)
\* bitwise combination of the low n bits of a and b; f is the 2x2 truth table
BitOp(f, a, b, n) ==
    IF n = 0 THEN 0
    ELSE f[a % 2][b % 2] + 2 * BitOp(f, a \div 2, b \div 2, n - 1)

XorBit == [x \in 0..1 |-> [y \in 0..1 |-> (x + y) % 2]]

OrBit == [x \in 0..1 |-> [y \in 0..1 |-> IF x + y > 0 THEN 1 ELSE 0]]

AndBit == [x \in 0..1 |-> [y \in 0..1 |-> x * y]]

XorNib == [a \in 0..15 |-> [b \in 0..15 |-> BitOp(XorBit, a, b, 4)]]

OrNib == [a \in 0..15 |-> [b \in 0..15 |-> BitOp(OrBit, a, b, 4)]]

AndNib == [a \in 0..15 |-> [b \in 0..15 |-> BitOp(AndBit, a, b, 4)]]

\* a ^ b on uint8_t
Xor8(a, b) == 16 * XorNib[a \div 16][b \div 16] + XorNib[a % 16][b % 16]

\* a | b on uint8_t
Or8(a, b) == 16 * OrNib[a \div 16][b \div 16] + OrNib[a % 16][b % 16]

\* a & b on uint8_t
And8(a, b) == 16 * AndNib[a \div 16][b \div 16] + AndNib[a % 16][b % 16]

\* a | b on uint16_t
Or16(a, b) == 256 * Or8(a \div 256, b \div 256) + Or8(a % 256, b % 256)

\* the value stored by an assignment to a uint8_t object
U8(x) == x % 256

\* the value stored by an assignment to a uint16_t object
U16(x) == x % 65536

BIT(x) == Pow2(x)

BITVAL(var, bit) == And8(var, BIT(bit)) \div Pow2(bit)

(***************************************************************************)
(* Layers of the algorithm (static functions of present.c)                 *)
(***************************************************************************)
\* present_add_key: text ^= key[KEY_OFFSET ..], byte by byte
present_add_key(text, key, bits) ==
    [byte_idx \in 0..(PRESENT_CRYPT_SIZE - 1) |->
        Xor8(text[byte_idx], key[byte_idx + PRESENT_KEY_OFFSET(bits)])]

\* variant: the switch ignores op
SboxOf_encrypt(op) == g_sbox

\* the lookup table the switch on op selects
SboxOf(op) == IF op = "ENCRYPT" THEN g_sbox ELSE g_sbox_inv

\* present_substitution: both nibbles of every byte go through the table
present_substitution(text, op) ==
    [byte_idx \in 0..(PRESENT_CRYPT_SIZE - 1) |->
        LET high_nibble == SboxOf(op)[And8(text[byte_idx], 240) \div 16]
            low_nibble  == SboxOf(op)[And8(text[byte_idx], 15)]
        IN  Or8(U8(high_nibble * 16), low_nibble)]

RECURSIVE EncPermLoop(_, _, _, _, _)
\* the while loop of present_encrypt_permutation
EncPermLoop(text, buff, base_bit, base_byte, bit_idx) ==
    IF bit_idx < PRESENT_CRYPT_SIZE
    THEN LET nb == [buff EXCEPT
                      ![0] = Or8(@, U8(BITVAL(text[base_byte + 0], base_bit + 0) * Pow2(bit_idx))),
                      ![1] = Or8(@, U8(BITVAL(text[base_byte + 4], base_bit + 0) * Pow2(bit_idx))),
                      ![2] = Or8(@, U8(BITVAL(text[base_byte + 0], base_bit + 1) * Pow2(bit_idx))),
                      ![3] = Or8(@, U8(BITVAL(text[base_byte + 4], base_bit + 1) * Pow2(bit_idx))),
                      ![4] = Or8(@, U8(BITVAL(text[base_byte + 0], base_bit + 2) * Pow2(bit_idx))),
                      ![5] = Or8(@, U8(BITVAL(text[base_byte + 4], base_bit + 2) * Pow2(bit_idx))),
                      ![6] = Or8(@, U8(BITVAL(text[base_byte + 0], base_bit + 3) * Pow2(bit_idx))),
                      ![7] = Or8(@, U8(BITVAL(text[base_byte + 4], base_bit + 3) * Pow2(bit_idx)))]
             ni == bit_idx + 1
         IN  IF ni % 2 # 0
             THEN EncPermLoop(text, nb, 4, base_byte, ni)
             ELSE EncPermLoop(text, nb, 0, base_byte + 1, ni)
    ELSE buff

\* variant: the scratch buffer is not cleared before the bits are OR'ed in
present_encrypt_permutation_dirty(text) ==
    EncPermLoop(text, text, 0, 0, 0)

present_encrypt_permutation(text) ==
    EncPermLoop(text, [k \in 0..7 |-> 0], 0, 0, 0)

RECURSIVE DecPermLoop(_, _, _, _, _)
\* the while loop of present_decrypt_permutation
DecPermLoop(text, buff, base_bit, base_byte, bit_idx) ==
    IF bit_idx < PRESENT_CRYPT_SIZE
    THEN LET nb == [buff EXCEPT
                      ![0] = Or8(@, U8(BITVAL(text[base_byte + 0], base_bit + 0) * Pow2(bit_idx))),
                      ![1] = Or8(@, U8(BITVAL(text[base_byte + 0], base_bit + 2) * Pow2(bit_idx))),
                      ![2] = Or8(@, U8(BITVAL(text[base_byte + 0], base_bit + 4) * Pow2(bit_idx))),
                      ![3] = Or8(@, U8(BITVAL(text[base_byte + 0], base_bit + 6) * Pow2(bit_idx))),
                      ![4] = Or8(@, U8(BITVAL(text[base_byte + 1], base_bit + 0) * Pow2(bit_idx))),
                      ![5] = Or8(@, U8(BITVAL(text[base_byte + 1], base_bit + 2) * Pow2(bit_idx))),
                      ![6] = Or8(@, U8(BITVAL(text[base_byte + 1], base_bit + 4) * Pow2(bit_idx))),
                      ![7] = Or8(@, U8(BITVAL(text[base_byte + 1], base_bit + 6) * Pow2(bit_idx)))]
             ni == bit_idx + 1
         IN  IF ni % 4 = 0
             THEN DecPermLoop(text, nb, 1, 0, ni)
             ELSE DecPermLoop(text, nb, base_bit, base_byte + 2, ni)
    ELSE buff

\* variant: the scratch buffer is not cleared before the bits are OR'ed in
present_decrypt_permutation_dirty(text) ==
    DecPermLoop(text, text, 0, 0, 0)

present_decrypt_permutation(text) ==
    DecPermLoop(text, [k \in 0..7 |-> 0], 0, 0, 0)

\* present_permutation: dispatch on op
present_permutation(text, op) ==
    IF op = "ENCRYPT" THEN present_encrypt_permutation(text)
                      ELSE present_decrypt_permutation(text)

(***************************************************************************)
(* Key register rotation through the uint16_t view of the key buffer       *)
(***************************************************************************)
\* p_block = (uint16_t *)p_key
ToBlocks(key, bits) ==
    [i \in 0..(PRESENT_KEY_BLOCK_SIZE(bits) - 1) |-> key[2 * i] + 256 * key[2 * i + 1]]

\* the bytes of the key buffer after the blocks were written
FromBlocks(blk, bits) ==
    [j \in 0..(PRESENT_KEY_SIZE(bits) - 1) |->
        IF j % 2 = 0 THEN blk[j \div 2] % 256 ELSE blk[j \div 2] \div 256]

RECURSIVE RotLeftFirst(_, _, _)
\* first loop of present_rotate_key_left, in place
RotLeftFirst(blk, block_idx, bits) ==
    IF block_idx < PRESENT_ROTATION_POINT_LEFT
    THEN RotLeftFirst(
            [blk EXCEPT ![block_idx] =
                U16(Or16(U16(blk[block_idx + PRESENT_ROTATION_LSB_OFFSET(bits)] * Pow2(13)),
                         blk[block_idx + PRESENT_ROTATION_MSB_OFFSET(bits)] \div Pow2(3)))],
            block_idx + 1, bits)
    ELSE blk

RECURSIVE RotLeftRest(_, _, _, _)
\* last loop of present_rotate_key_left, in place
RotLeftRest(blk, buff, block_idx, bits) ==
    IF block_idx < PRESENT_UNROTATED_BLOCK_COUNT_LEFT(bits)
    THEN RotLeftRest(
            [blk EXCEPT ![block_idx + 4] =
                U16(Or16(U16(buff[block_idx + 1] * Pow2(13)), buff[block_idx] \div Pow2(3)))],
            buff, block_idx + 1, bits)
    ELSE blk

\* the value a C statement leaves behind: S is {e}, and the statements after
\* it read that one value (x \in {e} names it)
Only(S) == CHOOSE x \in S : TRUE

present_rotate_key_left(key, bits) ==
    Only({ Only({ Only({ Only({ FromBlocks(RotLeftRest(b2, buff, 0, bits), bits) :
        b2 \in {[b1 EXCEPT ![PRESENT_ROTATION_POINT_LEFT] =
                    U16(Or16(U16(buff[0] * Pow2(13)),
                             b1[PRESENT_KEY_BLOCK_SIZE(bits) - 1] \div Pow2(3)))]} }) :
        b1 \in {RotLeftFirst(p_block, 0, bits)} }) :
        buff \in {[i \in 0..(PRESENT_ROTATE_BUFF_SIZE_LEFT(bits) - 1) |-> p_block[i]]} }) :
        p_block \in {ToBlocks(key, bits)} })

RECURSIVE RotRightFirst(_, _, _)
\* first loop of present_rotate_key_right, in place
RotRightFirst(blk, block_idx, bits) ==
    IF block_idx < PRESENT_ROTATION_POINT_RIGHT(bits)
    THEN RotRightFirst(
            [blk EXCEPT ![block_idx] =
                U16(Or16(U16(blk[block_idx + 4] * Pow2(3)),
                         blk[block_idx + 3] \div Pow2(13)))],
            block_idx + 1, bits)
    ELSE blk

RECURSIVE RotRightRest(_, _, _, _)
\* last loop of present_rotate_key_right, in place
RotRightRest(blk, buff, block_idx, bits) ==
    IF block_idx < PRESENT_UNROTATED_BLOCK_COUNT_RIGHT
    THEN RotRightRest(
            [blk EXCEPT ![block_idx + PRESENT_ROTATION_POINT_RIGHT(bits) + 1] =
                U16(Or16(U16(buff[block_idx + 1] * Pow2(3)), buff[block_idx] \div Pow2(13)))],
            buff, block_idx + 1, bits)
    ELSE blk

\* variant: the reverse update rotates to the left as well
present_rotate_key_right_left(key, bits) == present_rotate_key_left(key, bits)

present_rotate_key_right(key, bits) ==
    Only({ Only({ Only({ Only({ FromBlocks(RotRightRest(b2, buff, 0, bits), bits) :
        b2 \in {[b1 EXCEPT ![PRESENT_ROTATION_POINT_RIGHT(bits)] =
                    U16(Or16(U16(buff[0] * Pow2(3)),
                             b1[PRESENT_KEY_BLOCK_SIZE(bits) - 1] \div Pow2(13)))]} }) :
        b1 \in {RotRightFirst(p_block, 0, bits)} }) :
        buff \in {[i \in 0..(PRESENT_ROTATE_BUFF_SIZE_RIGHT - 1) |-> p_block[i]]} }) :
        p_block \in {ToBlocks(key, bits)} })

(***************************************************************************)
(* Key schedule                                                            *)
(***************************************************************************)
\* variant: the 80-bit counter position in both key widths
XorRoundCounter_80(key, round_counter, bits) ==
    [key EXCEPT ![2] = Xor8(key[2], round_counter \div 2),
                ![1] = Xor8(key[1], U8(round_counter * 128))]

\* the round counter XOR of both key updates (#if PRESENT_USE_KEY80 / #else)
XorRoundCounter(key, round_counter, bits) ==
    IF bits = 80
    THEN [key EXCEPT ![2] = Xor8(key[2], round_counter \div 2),
                     ![1] = Xor8(key[1], U8(round_counter * 128))]
    ELSE [key EXCEPT ![8] = Xor8(key[8], round_counter \div 4),
                     ![7] = Xor8(key[7], U8(round_counter * 64))]

\* variant: both nibbles of the top byte are substituted whatever the key size
SubstituteMsb_both(key, sbox, bits) ==
    LET msb == key[PRESENT_KEY_SIZE(bits) - 1]
    IN  [key EXCEPT ![PRESENT_KEY_SIZE(bits) - 1] =
            Or8(U8(sbox[And8(msb, 240) \div 16] * 16), sbox[And8(msb, 15)])]

\* substitution of the most significant key byte with table sbox
SubstituteMsb(key, sbox, bits) ==
    LET msb         == key[PRESENT_KEY_SIZE(bits) - 1]
        high_nibble == sbox[And8(msb, 240) \div 16]
        low_nibble  == IF bits = 128 THEN sbox[And8(msb, 15)] ELSE And8(msb, 15)
    IN  [key EXCEPT ![PRESENT_KEY_SIZE(bits) - 1] = Or8(U8(high_nibble * 16), low_nibble)]

present_update_encrypt_key(key, round_counter, bits) ==
    Only({ XorRoundCounter(substituted, round_counter, bits) :
        substituted \in { SubstituteMsb(rotated, g_sbox, bits) :
            rotated \in {present_rotate_key_left(key, bits)} } })

\* variant: the register is rotated before the counter XOR and the substitution
present_update_decrypt_key_rotfirst(key, round_counter, bits) ==
    Only({ SubstituteMsb(xored, g_sbox_inv, bits) :
        xored \in { XorRoundCounter(rotated, round_counter, bits) :
            rotated \in {present_rotate_key_right(key, bits)} } })

present_update_decrypt_key(key, round_counter, bits) ==
    Only({ present_rotate_key_right(substituted, bits) :
        substituted \in { SubstituteMsb(xored, g_sbox_inv, bits) :
            xored \in {XorRoundCounter(key, round_counter, bits)} } })

(***************************************************************************)
(* The ASSERT macro and the loop conditions of the drivers                 *)
(***************************************************************************)
\* variant: assertions compiled out
ASSERT_off(expr) == TRUE

\* ASSERT(expr): TRUE when execution continues, FALSE when assert_failed is called
ASSERT(expr) == expr

\* variant: the upper bound of the round counter is strict
UpdateKeyAssertsStrict(keyNull, round_counter) ==
    /\ ASSERT(~keyNull)
    /\ ASSERT(round_counter >= PRESENT_ROUND_COUNT_MIN)
    /\ ASSERT(round_counter < PRESENT_ROUND_COUNT_MAX)

\* the three ASSERTs at the head of present_update_key and of both key updates
UpdateKeyAsserts(keyNull, round_counter) ==
    /\ ASSERT(~keyNull)
    /\ ASSERT(round_counter >= PRESENT_ROUND_COUNT_MIN)
    /\ ASSERT(round_counter <= PRESENT_ROUND_COUNT_MAX)

\* variant: the last round is skipped
EncLoopCondStrict(r, count) == r < count

\* while (round <= PRESENT_ROUND_COUNT) in present_encrypt
EncLoopCond(r, count) == r <= count

\* variant: the pre-walk stops one update early
GenLoopCondStrict(r, count) == r < count

\* while (round <= PRESENT_ROUND_COUNT) in present_generate_decrypt_key
GenLoopCond(r, count) == r <= count

\* variant: the round with counter 1 is skipped
DecLoopCondFrom2(r) == r > 1

\* while (round > 0u) in present_decrypt
DecLoopCond(r) == r > 0

\* variant: the counter advances by two
Incr8_by2(r) == U8(r + 2)

\* round++ / round-- on a uint8_t
Incr8(r) == U8(r + 1)

\* variant: the counter goes down by two
Decr8_by2(r) == U8(r + 254)

Decr8(r) == U8(r + 255)

(***************************************************************************)
(* Inputs                                                                  *)
(***************************************************************************)
\* number of generated text blocks besides the vectors of the tests
NumExtraTexts == 1

\* number of generated keys besides the all-zero and all-one keys
NumExtraKeys == 1

\* largest configured PRESENT_ROUND_COUNT explored (one past the accepted range)
MaxRoundCfg == 32

\* the largest round count of the builds in which two calls run concurrently
MaxConcRounds == 2

Bytes8(a, b, c, d, e, f, g, h) ==
    (0 :> a) @@ (1 :> b) @@ (2 :> c) @@ (3 :> d) @@
    (4 :> e) @@ (5 :> f) @@ (6 :> g) @@ (7 :> h)

\* text_1 .. text_4 of the tests
Plain0 == [i \in 0..7 |-> 0]

PlainF == [i \in 0..7 |-> 255]

\* cipher_1 .. cipher_4 of the tests
Cipher1 == Bytes8(69, 132, 34, 123, 56, 193, 121, 85)

Cipher2 == Bytes8(73, 80, 148, 245, 192, 70, 44, 231)

Cipher3 == Bytes8(123, 65, 104, 47, 199, 255, 18, 161)

Cipher4 == Bytes8(210, 16, 50, 33, 211, 220, 51, 51)

\* key_1 .. key_4 of the tests, in the configured width
Key0(bits) == [i \in 0..(PRESENT_KEY_SIZE(bits) - 1) |-> 0]

KeyF(bits) == [i \in 0..(PRESENT_KEY_SIZE(bits) - 1) |-> 255]

GenText(n) == [i \in 0..7 |-> (n * 89 + i * 53 + n * i * 7 + 19) % 256]

GenKey(n, bits) == [i \in 0..(PRESENT_KEY_SIZE(bits) - 1) |-> (n * 113 + i * 71 + n * i * 5 + 42) % 256]

TextInputs == {Plain0, PlainF} \cup {GenText(n) : n \in 1..NumExtraTexts}

KeyInputs(bits) == {Key0(bits), KeyF(bits)} \cup {GenKey(n, bits) : n \in 1..NumExtraKeys}

\* a buffer that is not live (subkey outside a call)
NoBuf == <<>>

(***************************************************************************)
(* State                                                                   *)
(***************************************************************************)
VARIABLES
    keyBits,     \* PRESENT_KEY_BIT_SIZE of the build: 80 or 128
    roundCount,  \* PRESENT_ROUND_COUNT of the build
    build,       \* "unchecked", "ok" or "rejected": outcome of the compile time checks
    script,      \* the calls the caller still has to make, in order
    pTextNull,   \* the caller passes NULL as p_text
    pKeyNull,    \* the caller passes NULL as p_key
    mem,         \* text: caller's text block, key: caller's key, subkey: local of the call
    round,       \* the local round of the running driver or of generate_decrypt_key
    op,          \* the running call: "ENCRYPT", "DECRYPT" or "NONE"
    pc,          \* position in the running call
    orig,        \* the caller's text and key at construction
    log,         \* completed calls: op, text at entry, text at return
    steps,       \* the layers the running (or last) call has executed, in order
    thr,         \* the calls of two concurrent callers (idle in the sequential runs)
    fx,          \* a static function applied on its own (idle in the runs of the drivers)
    lib          \* a call of the encrypt-only library variant (idle unless it is compared)

vars == <<keyBits, roundCount, build, script, pTextNull, pKeyNull, mem, round, op, pc,
          orig, log, steps, thr, fx, lib>>

\* what no step of a driver changes: the build, the arguments, the other harnesses
cfgVars == <<keyBits, roundCount, pTextNull, pKeyNull, orig, thr, fx, lib>>

\* the harness is not in use
Idle == [kind |-> "idle"]

\* the record of one executed layer f of the running call: the round counter
\* and the working register it starts with
Did(f) == Append(steps, [f |-> f, r |-> round, k |-> mem.subkey])

\* writes of the text block through p_text
StoreText(m, v) == [m EXCEPT !.text = v]

\* variant: subkey aliases the caller's key instead of being a copy
StoreSubkeyAliased(m, v) == [m EXCEPT !.subkey = v, !.key = v]

\* variant: the key copy of a call depends on the output of the call before it
StoreSubkeyChained(m, v) ==
    [m EXCEPT !.subkey = IF m.subkey = NoBuf /\ Len(log) > 1
                         THEN [v EXCEPT ![9] = Xor8(v[9], log[Len(log) - 1].out[0])]
                         ELSE v]

\* writes of the local array subkey
StoreSubkey(m, v) == [m EXCEPT !.subkey = v]

Init ==
    /\ keyBits \in {80, 128}
    /\ roundCount \in 0..MaxRoundCfg
    /\ build = "unchecked"
    /\ script \in {<<"ENCRYPT", "DECRYPT", "ENCRYPT">>, <<"DECRYPT", "ENCRYPT", "DECRYPT">>}
    /\ pTextNull \in BOOLEAN
    /\ pKeyNull \in BOOLEAN
    /\ \E t \in TextInputs, k \in KeyInputs(keyBits) :
          /\ mem = [text |-> t, key |-> k, subkey |-> NoBuf]
          /\ orig = [text |-> t, key |-> k]
    /\ round = 0
    /\ op = "NONE"
    /\ pc = "caller"
    /\ log = <<>>
    /\ steps = <<>>
    /\ lib = Idle
    /\ thr = Idle
    /\ fx = Idle

(***************************************************************************)
(* Compile time checks of the round count (#if ... #errror)                *)
(***************************************************************************)
\* the round count passes both #if conditions
RoundCountInRange(count) ==
    /\ ~(count < PRESENT_ROUND_COUNT_MIN)
    /\ ~(count > PRESENT_ROUND_COUNT_MAX)

\* "#errror" is not the #error directive: what a preprocessor does with the
\* unknown directive is not defined, it may diagnose it or skip it
ErrrorOutcomes == {"rejected", "ok"}

Preprocess ==
    /\ build = "unchecked"
    /\ IF RoundCountInRange(roundCount)
       THEN build' = "ok"
       ELSE build' \in ErrrorOutcomes
    /\ UNCHANGED <<cfgVars, script, mem, round, op, pc, log, steps>>

(***************************************************************************)
(* The caller and the entry of both drivers                                *)
(***************************************************************************)
Call ==
    /\ build = "ok"
    /\ pc = "caller"
    /\ script # <<>>
    /\ op' = Head(script)
    /\ script' = Tail(script)
    /\ pc' = "entry"
    /\ log' = Append(log, [op |-> Head(script), in |-> mem.text, out |-> NoBuf, steps |-> <<>>])
    /\ steps' = <<>>
    /\ UNCHANGED <<cfgVars, build, mem, round>>

\* ASSERT(NULL != p_text); ASSERT(NULL != p_key);
Entry ==
    /\ pc = "entry"
    /\ IF ASSERT(~pTextNull) /\ ASSERT(~pKeyNull)
       THEN pc' = "copy"
       ELSE pc' = "assert_failed"
    /\ UNCHANGED <<cfgVars, build, script, mem, round, op, log, steps>>

\* memcpy(subkey, p_key, PRESENT_KEY_SIZE), then the start of the driver:
\* round = 1u and the first loop test (encrypt), or the call of
\* present_generate_decrypt_key with its round = 1u and first loop test
CopyKey ==
    /\ pc = "copy"
    /\ mem' = StoreSubkey(mem, mem.key)
    /\ round' = 1
    /\ pc' = IF op = "ENCRYPT"
             THEN (IF EncLoopCond(1, roundCount) THEN "e_add" ELSE "e_final")
             ELSE (IF GenLoopCond(1, roundCount) THEN "gen" ELSE "d_first")
    /\ UNCHANGED <<cfgVars, build, script, op, log, steps>>

\* return to the caller after the last present_add_key: the locals die
Return(m) ==
    /\ mem' = [m EXCEPT !.subkey = NoBuf]
    /\ round' = 0
    /\ op' = "NONE"
    /\ pc' = "caller"
    /\ log' = [log EXCEPT ![Len(log)].out = m.text, ![Len(log)].steps = Did("add_key")]

(***************************************************************************)
(* present_encrypt                                                         *)
(***************************************************************************)
\* variant: the loop body goes from present_add_key straight to present_permutation
EncAddKey_skip ==
    /\ pc = "e_add"
    /\ IF ASSERT(~pTextNull) /\ ASSERT(~pKeyNull)
       THEN /\ mem' = StoreText(mem, present_add_key(mem.text, mem.subkey, keyBits))
            /\ pc' = "e_perm"
       ELSE /\ pc' = "assert_failed"
            /\ UNCHANGED mem
    /\ steps' = IF pc' = "assert_failed" THEN steps ELSE Did("add_key")
    /\ UNCHANGED <<cfgVars, build, script, round, op, log>>

EncAddKey ==
    /\ pc = "e_add"
    /\ IF ASSERT(~pTextNull) /\ ASSERT(~pKeyNull)
       THEN /\ mem' = StoreText(mem, present_add_key(mem.text, mem.subkey, keyBits))
            /\ pc' = "e_sub"
       ELSE /\ pc' = "assert_failed"
            /\ UNCHANGED mem
    /\ steps' = IF pc' = "assert_failed" THEN steps ELSE Did("add_key")
    /\ UNCHANGED <<cfgVars, build, script, round, op, log>>

EncSubstitution ==
    /\ pc = "e_sub"
    /\ IF ASSERT(~pTextNull)
       THEN /\ mem' = StoreText(mem, present_substitution(mem.text, "ENCRYPT"))
            /\ pc' = "e_perm"
       ELSE /\ pc' = "assert_failed"
            /\ UNCHANGED mem
    /\ steps' = IF pc' = "assert_failed" THEN steps ELSE Did("substitution")
    /\ UNCHANGED <<cfgVars, build, script, round, op, log>>

EncPermutation ==
    /\ pc = "e_perm"
    /\ IF ASSERT(~pTextNull)
       THEN /\ mem' = StoreText(mem, present_permutation(mem.text, "ENCRYPT"))
            /\ pc' = "e_upd"
       ELSE /\ pc' = "assert_failed"
            /\ UNCHANGED mem
    /\ steps' = IF pc' = "assert_failed" THEN steps ELSE Did("permutation")
    /\ UNCHANGED <<cfgVars, build, script, round, op, log>>

\* present_update_key(subkey, round, PRESENT_OP_ENCRYPT); round++; loop test
EncUpdateKey ==
    /\ pc = "e_upd"
    /\ IF UpdateKeyAsserts(pKeyNull, round)
       THEN /\ mem' = StoreSubkey(mem, present_update_encrypt_key(mem.subkey, round, keyBits))
            /\ round' = Incr8(round)
            /\ pc' = IF EncLoopCond(Incr8(round), roundCount) THEN "e_add" ELSE "e_final"
       ELSE /\ pc' = "assert_failed"
            /\ UNCHANGED <<mem, round>>
    /\ steps' = IF pc' = "assert_failed" THEN steps ELSE Did("update_key")
    /\ UNCHANGED <<cfgVars, build, script, op, log>>

\* the last present_add_key and the return
EncFinalAddKey ==
    /\ pc = "e_final"
    /\ IF ASSERT(~pTextNull) /\ ASSERT(~pKeyNull)
       THEN Return(StoreText(mem, present_add_key(mem.text, mem.subkey, keyBits)))
       ELSE /\ pc' = "assert_failed"
            /\ UNCHANGED <<mem, round, op, log>>
    /\ steps' = IF pc' = "assert_failed" THEN steps ELSE Did("add_key")
    /\ UNCHANGED <<cfgVars, build, script>>

(***************************************************************************)
(* present_decrypt                                                         *)
(***************************************************************************)
\* variant: every iteration passes the counter 1 to present_update_key
GenerateDecryptKey_counter1 ==
    /\ pc = "gen"
    /\ IF UpdateKeyAsserts(pKeyNull, round)
       THEN /\ mem' = StoreSubkey(mem, present_update_encrypt_key(mem.subkey, 1, keyBits))
            /\ round' = Incr8(round)
            /\ pc' = IF GenLoopCond(Incr8(round), roundCount) THEN "gen" ELSE "d_first"
       ELSE /\ pc' = "assert_failed"
            /\ UNCHANGED <<mem, round>>
    /\ steps' = IF pc' = "assert_failed" THEN steps ELSE Did("generate_key")
    /\ UNCHANGED <<cfgVars, build, script, op, log>>

\* one iteration of the loop of present_generate_decrypt_key
GenerateDecryptKey ==
    /\ pc = "gen"
    /\ IF UpdateKeyAsserts(pKeyNull, round)
       THEN /\ mem' = StoreSubkey(mem, present_update_encrypt_key(mem.subkey, round, keyBits))
            /\ round' = Incr8(round)
            /\ pc' = IF GenLoopCond(Incr8(round), roundCount) THEN "gen" ELSE "d_first"
       ELSE /\ pc' = "assert_failed"
            /\ UNCHANGED <<mem, round>>
    /\ steps' = IF pc' = "assert_failed" THEN steps ELSE Did("generate_key")
    /\ UNCHANGED <<cfgVars, build, script, op, log>>

\* present_add_key with the generated key; round = PRESENT_ROUND_COUNT; loop test
DecFirstAddKey ==
    /\ pc = "d_first"
    /\ IF ASSERT(~pTextNull) /\ ASSERT(~pKeyNull)
       THEN IF DecLoopCond(U8(roundCount))
            THEN /\ mem' = StoreText(mem, present_add_key(mem.text, mem.subkey, keyBits))
                 /\ round' = U8(roundCount)
                 /\ pc' = "d_perm"
                 /\ UNCHANGED <<op, log>>
            ELSE Return(StoreText(mem, present_add_key(mem.text, mem.subkey, keyBits)))
       ELSE /\ pc' = "assert_failed"
            /\ UNCHANGED <<mem, round, op, log>>
    /\ steps' = IF pc' = "assert_failed" THEN steps ELSE Did("add_key")
    /\ UNCHANGED <<cfgVars, build, script>>

DecPermutation ==
    /\ pc = "d_perm"
    /\ IF ASSERT(~pTextNull)
       THEN /\ mem' = StoreText(mem, present_permutation(mem.text, "DECRYPT"))
            /\ pc' = "d_sub"
       ELSE /\ pc' = "assert_failed"
            /\ UNCHANGED mem
    /\ steps' = IF pc' = "assert_failed" THEN steps ELSE Did("permutation_inv")
    /\ UNCHANGED <<cfgVars, build, script, round, op, log>>

DecSubstitution ==
    /\ pc = "d_sub"
    /\ IF ASSERT(~pTextNull)
       THEN /\ mem' = StoreText(mem, present_substitution(mem.text, "DECRYPT"))
            /\ pc' = "d_upd"
       ELSE /\ pc' = "assert_failed"
            /\ UNCHANGED mem
    /\ steps' = IF pc' = "assert_failed" THEN steps ELSE Did("substitution_inv")
    /\ UNCHANGED <<cfgVars, build, script, round, op, log>>

\* present_update_key(subkey, round, PRESENT_OP_DECRYPT)
DecUpdateKey ==
    /\ pc = "d_upd"
    /\ IF UpdateKeyAsserts(pKeyNull, round)
       THEN /\ mem' = StoreSubkey(mem, present_update_decrypt_key(mem.subkey, round, keyBits))
            /\ pc' = "d_add"
       ELSE /\ pc' = "assert_failed"
            /\ UNCHANGED mem
    /\ steps' = IF pc' = "assert_failed" THEN steps ELSE Did("update_key_rev")
    /\ UNCHANGED <<cfgVars, build, script, round, op, log>>

\* present_add_key; round--; loop test; return when the loop ends
DecAddKey ==
    /\ pc = "d_add"
    /\ IF ASSERT(~pTextNull) /\ ASSERT(~pKeyNull)
       THEN IF DecLoopCond(Decr8(round))
            THEN /\ mem' = StoreText(mem, present_add_key(mem.text, mem.subkey, keyBits))
                 /\ round' = Decr8(round)
                 /\ pc' = "d_perm"
                 /\ UNCHANGED <<op, log>>
            ELSE Return(StoreText(mem, present_add_key(mem.text, mem.subkey, keyBits)))
       ELSE /\ pc' = "assert_failed"
            /\ UNCHANGED <<mem, round, op, log>>
    /\ steps' = IF pc' = "assert_failed" THEN steps ELSE Did("add_key")
    /\ UNCHANGED <<cfgVars, build, script>>

(***************************************************************************)
(* assert_failed: for(;;) { }                                              *)
(***************************************************************************)
\* variant: assert_failed returns and the failed call hands back to its caller
assert_failed_returns(p) == "caller"

\* the position after one pass of the empty for(;;) body
assert_failed_loop(p) == p

AssertFailed ==
    /\ pc = "assert_failed"
    /\ pc' = assert_failed_loop(pc)
    /\ UNCHANGED <<cfgVars, build, script, mem, round, op, log, steps>>

Next ==
    \/ Preprocess
    \/ Call
    \/ Entry
    \/ CopyKey
    \/ EncAddKey
    \/ EncSubstitution
    \/ EncPermutation
    \/ EncUpdateKey
    \/ EncFinalAddKey
    \/ GenerateDecryptKey
    \/ DecFirstAddKey
    \/ DecPermutation
    \/ DecSubstitution
    \/ DecUpdateKey
    \/ DecAddKey
    \/ AssertFailed

Spec == Init /\ [][Next]_vars

\* the processor keeps executing: a step that can be taken is taken
FairSpec == Spec /\ WF_vars(Next)

\* a caller that makes one call only
OneCallInit ==
    /\ keyBits \in {80, 128}
    /\ roundCount \in 0..MaxRoundCfg
    /\ build = "unchecked"
    /\ script \in {<<"ENCRYPT">>, <<"DECRYPT">>}
    /\ pTextNull \in BOOLEAN
    /\ pKeyNull \in BOOLEAN
    /\ \E t \in {Plain0, GenText(1)},
          k \in {KeyF(keyBits)} \cup {GenKey(n, keyBits) : n \in 1..NumExtraKeys} :
          /\ mem = [text |-> t, key |-> k, subkey |-> NoBuf]
          /\ orig = [text |-> t, key |-> k]
    /\ round = 0
    /\ op = "NONE"
    /\ pc = "caller"
    /\ log = <<>>
    /\ steps = <<>>
    /\ lib = Idle
    /\ thr = Idle
    /\ fx = Idle

OneCallSpec == OneCallInit /\ [][Next]_vars /\ WF_vars(Next)

(***************************************************************************)
(* The static functions of present.c applied on their own                  *)
(***************************************************************************)
\* text blocks with one bit set, and with one bit clear
OneBitTexts ==
    {[k \in 0..(PRESENT_CRYPT_SIZE - 1) |-> IF k = i \div 8 THEN Pow2(i % 8) ELSE 0] :
        i \in 0..63}

AllButOneBitTexts ==
    {[k \in 0..(PRESENT_CRYPT_SIZE - 1) |-> IF k = i \div 8 THEN 255 - Pow2(i % 8) ELSE 255] :
        i \in 0..63}

TextProbes == OneBitTexts \cup AllButOneBitTexts \cup TextInputs

\* key registers with one bit set
OneBitKeys(bits) ==
    {[k \in 0..(PRESENT_KEY_SIZE(bits) - 1) |-> IF k = i \div 8 THEN Pow2(i % 8) ELSE 0] :
        i \in 0..(bits - 1)}

KeyProbes(bits) == OneBitKeys(bits) \cup KeyInputs(bits)

\* the values of round_counter that pass the ASSERTs of the key updates
RoundCounters == PRESENT_ROUND_COUNT_MIN..PRESENT_ROUND_COUNT_MAX

\* all variables but fx
drvVars == <<keyBits, roundCount, build, script, pTextNull, pKeyNull, mem, round, op, pc,
             orig, log, steps, thr, lib>>

\* the drivers are not running: only static functions are applied
FnInit ==
    /\ keyBits = 80
    /\ roundCount = PRESENT_ROUND_COUNT_MAX
    /\ build = "unchecked"
    /\ script = <<>>
    /\ pTextNull = FALSE
    /\ pKeyNull = FALSE
    /\ mem = [text |-> Plain0, key |-> Key0(80), subkey |-> NoBuf]
    /\ orig = [text |-> Plain0, key |-> Key0(80)]
    /\ round = 0
    /\ op = "NONE"
    /\ pc = "caller"
    /\ log = <<>>
    /\ steps = <<>>
    /\ lib = Idle
    /\ thr = Idle
    /\ \E bits \in {80, 128} :
          \/ \E t \in TextProbes, k \in KeyInputs(bits) :
                fx = [kind |-> "text", bits |-> bits, key |-> k, r |-> 0,
                      vals |-> <<t>>, fs |-> <<>>]
          \/ \E k \in KeyProbes(bits) :
                fx = [kind |-> "key", bits |-> bits, key |-> k, r |-> 0,
                      vals |-> <<k>>, fs |-> <<>>]

\* the buffer the next function works on
FxCur == fx.vals[Len(fx.vals)]

\* function f is the first one applied, or follows the function named prev
FxCan(prev) == fx.kind # "idle" /\ (fx.fs = <<>> \/ fx.fs = <<prev>>)

\* f has run and left v in the buffer
FxDone(f, v) == fx' = [fx EXCEPT !.fs = Append(@, f), !.vals = Append(@, v)]

FxEncryptPermutation ==
    /\ FxCan("decrypt_permutation") /\ fx.kind = "text"
    /\ FxDone("encrypt_permutation", present_encrypt_permutation(FxCur))
    /\ UNCHANGED drvVars

FxDecryptPermutation ==
    /\ FxCan("encrypt_permutation") /\ fx.kind = "text"
    /\ FxDone("decrypt_permutation", present_decrypt_permutation(FxCur))
    /\ UNCHANGED drvVars

FxSubstitutionEncrypt ==
    /\ FxCan("substitution_DECRYPT") /\ fx.kind = "text"
    /\ FxDone("substitution_ENCRYPT", present_substitution(FxCur, "ENCRYPT"))
    /\ UNCHANGED drvVars

FxSubstitutionDecrypt ==
    /\ FxCan("substitution_ENCRYPT") /\ fx.kind = "text"
    /\ FxDone("substitution_DECRYPT", present_substitution(FxCur, "DECRYPT"))
    /\ UNCHANGED drvVars

FxAddKey ==
    /\ FxCan("add_key") /\ fx.kind = "text"
    /\ FxDone("add_key", present_add_key(FxCur, fx.key, fx.bits))
    /\ UNCHANGED drvVars

FxRotateKeyLeft ==
    /\ FxCan("rotate_key_right") /\ fx.kind = "key"
    /\ FxDone("rotate_key_left", present_rotate_key_left(FxCur, fx.bits))
    /\ UNCHANGED drvVars

FxRotateKeyRight ==
    /\ FxCan("rotate_key_left") /\ fx.kind = "key"
    /\ FxDone("rotate_key_right", present_rotate_key_right(FxCur, fx.bits))
    /\ UNCHANGED drvVars

FxUpdateEncryptKey ==
    /\ FxCan("update_decrypt_key") /\ fx.kind = "key"
    /\ \E r \in RoundCounters :
          /\ fx.fs # <<>> => r = fx.r
          /\ UpdateKeyAsserts(FALSE, r)
          /\ fx' = [fx EXCEPT !.fs = Append(@, "update_encrypt_key"), !.r = r,
                              !.vals = Append(@, present_update_encrypt_key(FxCur, r, fx.bits))]
    /\ UNCHANGED drvVars

FxUpdateDecryptKey ==
    /\ FxCan("update_encrypt_key") /\ fx.kind = "key"
    /\ \E r \in RoundCounters :
          /\ fx.fs # <<>> => r = fx.r
          /\ UpdateKeyAsserts(FALSE, r)
          /\ fx' = [fx EXCEPT !.fs = Append(@, "update_decrypt_key"), !.r = r,
                              !.vals = Append(@, present_update_decrypt_key(FxCur, r, fx.bits))]
    /\ UNCHANGED drvVars

FnNext ==
    \/ FxEncryptPermutation
    \/ FxDecryptPermutation
    \/ FxSubstitutionEncrypt
    \/ FxSubstitutionDecrypt
    \/ FxAddKey
    \/ FxRotateKeyLeft
    \/ FxRotateKeyRight
    \/ FxUpdateEncryptKey
    \/ FxUpdateDecryptKey

FnSpec == FnInit /\ [][FnNext]_vars

(***************************************************************************)
(* A whole call as one function of its arguments                           *)
(***************************************************************************)
RECURSIVE EncLoop(_, _, _, _, _)
\* the main loop and the last present_add_key of present_encrypt
EncLoop(text, subkey, r, count, bits) ==
    IF EncLoopCond(r, count)
    THEN Only({ EncLoop(t, k, Incr8(r), count, bits) :
             t \in {present_permutation(
                        present_substitution(present_add_key(text, subkey, bits), "ENCRYPT"),
                        "ENCRYPT")},
             k \in {present_update_encrypt_key(subkey, r, bits)} })
    ELSE present_add_key(text, subkey, bits)

present_encrypt(text, key, count, bits) == EncLoop(text, key, 1, count, bits)

RECURSIVE present_generate_decrypt_key(_, _, _, _)
\* the loop of present_generate_decrypt_key, entered with r = 1
present_generate_decrypt_key(key, r, count, bits) ==
    IF GenLoopCond(r, count)
    THEN Only({ present_generate_decrypt_key(k, Incr8(r), count, bits) :
             k \in {present_update_encrypt_key(key, r, bits)} })
    ELSE key

RECURSIVE DecLoop(_, _, _, _)
\* the main loop of present_decrypt
DecLoop(text, subkey, r, bits) ==
    IF DecLoopCond(r)
    THEN Only({ Only({ DecLoop(t, k, Decr8(r), bits) :
             t \in {present_add_key(
                        present_substitution(present_permutation(text, "DECRYPT"), "DECRYPT"),
                        k, bits)} }) :
             k \in {present_update_decrypt_key(subkey, r, bits)} })
    ELSE text

present_decrypt(text, key, count, bits) ==
    Only({ DecLoop(present_add_key(text, k, bits), k, U8(count), bits) :
        k \in {present_generate_decrypt_key(key, 1, count, bits)} })

(***************************************************************************)
(* Two calls running at the same time on two text buffers                  *)
(***************************************************************************)
\* all variables but thr
seqVars == <<keyBits, roundCount, build, script, pTextNull, pKeyNull, mem, round, op, pc,
             orig, log, steps, fx, lib>>

Threads == {1, 2}

Other(t) == 3 - t

\* variant: subkey has static storage, one array for all calls
SubkeyOwner_static(t) == 1

\* the storage of the automatic array subkey of the call made by thread t
SubkeyOwner(t) == t

\* two threads, each about to call present_encrypt or present_decrypt with
\* its own text buffer; the key buffer is read by both
ConcInit ==
    /\ keyBits = 80
    /\ roundCount = PRESENT_ROUND_COUNT_MAX
    /\ build = "unchecked"
    /\ script = <<>>
    /\ pTextNull = FALSE
    /\ pKeyNull = FALSE
    /\ mem = [text |-> Plain0, key |-> Key0(80), subkey |-> NoBuf]
    /\ orig = [text |-> Plain0, key |-> Key0(80)]
    /\ round = 0
    /\ op = "NONE"
    /\ pc = "caller"
    /\ log = <<>>
    /\ steps = <<>>
    /\ lib = Idle
    /\ fx = Idle
    /\ \E bits \in {80, 128}, count \in PRESENT_ROUND_COUNT_MIN..MaxConcRounds,
          op1 \in {"ENCRYPT", "DECRYPT"}, op2 \in {"ENCRYPT", "DECRYPT"} :
          thr = [kind  |-> "conc", bits |-> bits, count |-> count, mixed |-> FALSE,
                 mem   |-> [text   |-> <<GenText(1), PlainF>>,
                            key    |-> GenKey(1, bits),
                            subkey |-> <<NoBuf, NoBuf>>],
                 call  |-> <<[op |-> op1, pc |-> "copy", r |-> 0, byte_idx |-> 0, keys |-> <<>>],
                             [op |-> op2, pc |-> "copy", r |-> 0, byte_idx |-> 0, keys |-> <<>>]>>,
                 arg   |-> <<GenText(1), PlainF>>]

\* thread t is inside its call
Busy(t) == thr.call[t].pc \notin {"copy", "done"}

ThrSubkey(t) == thr.mem.subkey[SubkeyOwner(t)]

\* variant: a store through p_text also reaches the first byte of subkey
WriteText_clobber(t, v) ==
    [thr.mem EXCEPT !.text[t] = v, !.subkey[SubkeyOwner(t)] = [@ EXCEPT ![0] = v[0]]]

WriteText(t, v) == [thr.mem EXCEPT !.text[t] = v]

WriteSubkey(t, v) == [thr.mem EXCEPT !.subkey[SubkeyOwner(t)] = v]

\* one step of thread t: its locals become c, the memory becomes m
ThrGoes(t, c, m) ==
    /\ thr' = [thr EXCEPT !.call[t] = c, !.mem = m, !.mixed = @ \/ Busy(Other(t))]
    /\ UNCHANGED seqVars

\* memcpy(subkey, p_key, PRESENT_KEY_SIZE); round = 1 (of the driver or of
\* present_generate_decrypt_key); first loop test
ThrCopyKey(t) ==
    LET c == thr.call[t]
    IN  /\ thr.kind = "conc" /\ c.pc = "copy"
        /\ ThrGoes(t, [c EXCEPT !.r = 1,
                                !.pc = IF c.op = "ENCRYPT"
                                       THEN (IF EncLoopCond(1, thr.count) THEN "e_add" ELSE "e_final")
                                       ELSE (IF GenLoopCond(1, thr.count) THEN "gen" ELSE "d_first")],
                   WriteSubkey(t, thr.mem.key))

\* where a call continues after a present_add_key
AfterAddKey(c) ==
    CASE c.pc = "e_add"   -> [c EXCEPT !.pc = "e_sub", !.byte_idx = 0]
      [] c.pc = "e_final" -> [c EXCEPT !.pc = "done", !.byte_idx = 0]
      [] c.pc = "d_first" -> [c EXCEPT !.pc = IF DecLoopCond(U8(thr.count)) THEN "d_perm" ELSE "done",
                                       !.r = U8(thr.count), !.byte_idx = 0]
      [] c.pc = "d_add"   -> [c EXCEPT !.pc = IF DecLoopCond(Decr8(c.r)) THEN "d_perm" ELSE "done",
                                       !.r = Decr8(c.r), !.byte_idx = 0]

\* one iteration of the for loop of present_add_key
ThrAddKeyByte(t) ==
    LET c == thr.call[t]
        b == c.byte_idx
    IN  /\ thr.kind = "conc" /\ c.pc \in {"e_add", "e_final", "d_first", "d_add"}
        /\ ThrGoes(t, IF b + 1 < PRESENT_CRYPT_SIZE THEN [c EXCEPT !.byte_idx = b + 1]
                                                    ELSE AfterAddKey(c),
                   WriteText(t, [thr.mem.text[t] EXCEPT
                                    ![b] = present_add_key(thr.mem.text[t], ThrSubkey(t), thr.bits)[b]]))

\* one iteration of the for loop of present_substitution
ThrSubstitutionByte(t) ==
    LET c == thr.call[t]
        b == c.byte_idx
    IN  /\ thr.kind = "conc" /\ c.pc \in {"e_sub", "d_sub"}
        /\ ThrGoes(t, IF b + 1 < PRESENT_CRYPT_SIZE
                      THEN [c EXCEPT !.byte_idx = b + 1]
                      ELSE [c EXCEPT !.byte_idx = 0,
                                     !.pc = IF c.op = "ENCRYPT" THEN "e_perm" ELSE "d_upd"],
                   WriteText(t, [thr.mem.text[t] EXCEPT
                                    ![b] = present_substitution(thr.mem.text[t], c.op)[b]]))

\* present_permutation: the bits are gathered in the local buff and copied back
ThrPermutation(t) ==
    LET c == thr.call[t]
    IN  /\ thr.kind = "conc" /\ c.pc \in {"e_perm", "d_perm"}
        /\ ThrGoes(t, [c EXCEPT !.pc = IF c.op = "ENCRYPT" THEN "e_upd" ELSE "d_sub"],
                   WriteText(t, present_permutation(thr.mem.text[t], c.op)))

\* present_update_key in the loop of present_encrypt (then round++) or of
\* present_decrypt, and the loop test that follows
ThrUpdateKey(t) ==
    LET c == thr.call[t]
    IN  /\ thr.kind = "conc" /\ c.pc \in {"e_upd", "d_upd"}
        /\ UpdateKeyAsserts(FALSE, c.r)
        /\ IF c.op = "ENCRYPT"
           THEN \E k \in {present_update_encrypt_key(ThrSubkey(t), c.r, thr.bits)} :
                    ThrGoes(t, [c EXCEPT !.r = Incr8(c.r), !.keys = Append(@, k),
                                         !.pc = IF EncLoopCond(Incr8(c.r), thr.count)
                                                THEN "e_add" ELSE "e_final"],
                            WriteSubkey(t, k))
           ELSE \E k \in {present_update_decrypt_key(ThrSubkey(t), c.r, thr.bits)} :
                    ThrGoes(t, [c EXCEPT !.pc = "d_add", !.keys = Append(@, k)],
                            WriteSubkey(t, k))

\* one iteration of the loop of present_generate_decrypt_key
ThrGenerateDecryptKey(t) ==
    LET c == thr.call[t]
    IN  /\ thr.kind = "conc" /\ c.pc = "gen"
        /\ UpdateKeyAsserts(FALSE, c.r)
        /\ \E k \in {present_update_encrypt_key(ThrSubkey(t), c.r, thr.bits)} :
              ThrGoes(t, [c EXCEPT !.r = Incr8(c.r), !.keys = Append(@, k),
                                   !.pc = IF GenLoopCond(Incr8(c.r), thr.count) THEN "gen" ELSE "d_first"],
                      WriteSubkey(t, k))

ConcNext ==
    \E t \in Threads :
        \/ ThrCopyKey(t)
        \/ ThrAddKeyByte(t)
        \/ ThrSubstitutionByte(t)
        \/ ThrPermutation(t)
        \/ ThrUpdateKey(t)
        \/ ThrGenerateDecryptKey(t)

ConcSpec == ConcInit /\ [][ConcNext]_vars

(***************************************************************************)
(* The encrypt-only library variant (src/lib/src/present.c)                *)
(***************************************************************************)
\* variant: the library runs one round less
LIB_PRESENT_ROUND_COUNT_30 == PRESENT_ROUND_COUNT_MAX - 1

LIB_PRESENT_ROUND_COUNT == 31

\* PRESENT_KEY_SIZE of present.h in the 80-bit configuration of conf.h
LIB_PRESENT_KEY_SIZE == 10

LIB_PRESENT_KEY_OFFSET == LIB_PRESENT_KEY_SIZE - PRESENT_CRYPT_SIZE

LIB_PRESENT_KEY_BLOCK_SIZE == 80 \div 16

LIB_PRESENT_ROTATE_BUFF_SIZE_LEFT == 2

LIB_PRESENT_ROTATION_POINT_LEFT == 3

LIB_PRESENT_UNROTATED_BLOCK_COUNT_LEFT == 1

LIB_PRESENT_ROTATION_LSB_OFFSET == 2

LIB_PRESENT_ROTATION_MSB_OFFSET == 1

lib_g_sbox == [n \in 0..15 |->
             CASE n = 0 -> 12 [] n = 1 -> 5  [] n = 2 -> 6  [] n = 3 -> 11
               [] n = 4 -> 9  [] n = 5 -> 0  [] n = 6 -> 10 [] n = 7 -> 13
               [] n = 8 -> 3  [] n = 9 -> 14 [] n = 10 -> 15 [] n = 11 -> 8
               [] n = 12 -> 4 [] n = 13 -> 7 [] n = 14 -> 1 [] n = 15 -> 2]

lib_present_add_key(text, key) ==
    [byte_idx \in 0..(PRESENT_CRYPT_SIZE - 1) |->
        Xor8(text[byte_idx], key[byte_idx + LIB_PRESENT_KEY_OFFSET])]

lib_present_substitution(text) ==
    [byte_idx \in 0..(PRESENT_CRYPT_SIZE - 1) |->
        LET high_nibble == lib_g_sbox[And8(text[byte_idx], 240) \div 16]
            low_nibble  == lib_g_sbox[And8(text[byte_idx], 15)]
        IN  Or8(U8(high_nibble * 16), low_nibble)]

RECURSIVE LibPermLoop(_, _, _, _, _)
\* the while loop of present_permutation of the library variant
LibPermLoop(text, buff, base_bit, base_byte, bit_idx) ==
    IF bit_idx < PRESENT_CRYPT_SIZE
    THEN LET nb == [buff EXCEPT
                      ![0] = Or8(@, U8(BITVAL(text[base_byte + 0], base_bit + 0) * Pow2(bit_idx))),
                      ![1] = Or8(@, U8(BITVAL(text[base_byte + 4], base_bit + 0) * Pow2(bit_idx))),
                      ![2] = Or8(@, U8(BITVAL(text[base_byte + 0], base_bit + 1) * Pow2(bit_idx))),
                      ![3] = Or8(@, U8(BITVAL(text[base_byte + 4], base_bit + 1) * Pow2(bit_idx))),
                      ![4] = Or8(@, U8(BITVAL(text[base_byte + 0], base_bit + 2) * Pow2(bit_idx))),
                      ![5] = Or8(@, U8(BITVAL(text[base_byte + 4], base_bit + 2) * Pow2(bit_idx))),
                      ![6] = Or8(@, U8(BITVAL(text[base_byte + 0], base_bit + 3) * Pow2(bit_idx))),
                      ![7] = Or8(@, U8(BITVAL(text[base_byte + 4], base_bit + 3) * Pow2(bit_idx)))]
             ni == bit_idx + 1
         IN  IF ni % 2 # 0
             THEN LibPermLoop(text, nb, 4, base_byte, ni)
             ELSE LibPermLoop(text, nb, 0, base_byte + 1, ni)
    ELSE buff

lib_present_permutation(text) ==
    LibPermLoop(text, [k \in 0..7 |-> 0], 0, 0, 0)

\* p_block = (uint16_t *)p_key in the library variant
LibToBlocks(key) ==
    [i \in 0..(LIB_PRESENT_KEY_BLOCK_SIZE - 1) |-> key[2 * i] + 256 * key[2 * i + 1]]

LibFromBlocks(blk) ==
    [j \in 0..(LIB_PRESENT_KEY_SIZE - 1) |->
        IF j % 2 = 0 THEN blk[j \div 2] % 256 ELSE blk[j \div 2] \div 256]

RECURSIVE LibRotLeftFirst(_, _)
\* first loop of present_rotate_key_left of the library variant, in place
LibRotLeftFirst(blk, block_idx) ==
    IF block_idx < LIB_PRESENT_ROTATION_POINT_LEFT
    THEN LibRotLeftFirst(
            [blk EXCEPT ![block_idx] =
                U16(Or16(U16(blk[block_idx + LIB_PRESENT_ROTATION_LSB_OFFSET] * Pow2(13)),
                         blk[block_idx + LIB_PRESENT_ROTATION_MSB_OFFSET] \div Pow2(3)))],
            block_idx + 1)
    ELSE blk

RECURSIVE LibRotLeftRest(_, _, _)
\* last loop of present_rotate_key_left of the library variant, in place
LibRotLeftRest(blk, buff, block_idx) ==
    IF block_idx < LIB_PRESENT_UNROTATED_BLOCK_COUNT_LEFT
    THEN LibRotLeftRest(
            [blk EXCEPT ![block_idx + 4] =
                U16(Or16(U16(buff[block_idx + 1] * Pow2(13)), buff[block_idx] \div Pow2(3)))],
            buff, block_idx + 1)
    ELSE blk

lib_present_rotate_key_left(key) ==
    Only({ Only({ Only({ Only({ LibFromBlocks(LibRotLeftRest(b2, buff, 0)) :
        b2 \in {[b1 EXCEPT ![LIB_PRESENT_ROTATION_POINT_LEFT] =
                    U16(Or16(U16(buff[0] * Pow2(13)),
                             b1[LIB_PRESENT_KEY_BLOCK_SIZE - 1] \div Pow2(3)))]} }) :
        b1 \in {LibRotLeftFirst(p_block, 0)} }) :
        buff \in {[i \in 0..(LIB_PRESENT_ROTATE_BUFF_SIZE_LEFT - 1) |-> p_block[i]]} }) :
        p_block \in {LibToBlocks(key)} })

\* present_update_key of the library variant: rotate, substitute the high
\* nibble of the top byte, XOR the round counter
lib_present_update_key(key, round_counter) ==
    Only({ [substituted EXCEPT ![2] = Xor8(@, round_counter \div 2),
                               ![1] = Xor8(@, U8(round_counter * 128))] :
        substituted \in {
            [rotated EXCEPT ![LIB_PRESENT_KEY_SIZE - 1] =
                Or8(U8(lib_g_sbox[And8(@, 240) \div 16] * 16), And8(@, 15))] :
            rotated \in {lib_present_rotate_key_left(key)} } })

\* all variables but lib
mainVars == <<keyBits, roundCount, build, script, pTextNull, pKeyNull, mem, round, op, pc,
              orig, log, steps, thr, fx>>

\* the main variant, built for the 80-bit key and 31 rounds, and the library
\* variant are each about to encrypt the same text with the same key
LibInit ==
    /\ keyBits = 80
    /\ roundCount = PRESENT_ROUND_COUNT_MAX
    /\ build = "unchecked"
    /\ script = <<"ENCRYPT">>
    /\ pTextNull = FALSE
    /\ pKeyNull = FALSE
    /\ \E t \in TextInputs, k \in KeyInputs(80) :
          /\ mem = [text |-> t, key |-> k, subkey |-> NoBuf]
          /\ orig = [text |-> t, key |-> k]
          /\ lib = [kind |-> "lib", pc |-> "copy", text |-> t, key |-> k,
                    subkey |-> NoBuf, round |-> 0]
    /\ round = 0
    /\ op = "NONE"
    /\ pc = "caller"
    /\ log = <<>>
    /\ steps = <<>>
    /\ thr = Idle
    /\ fx = Idle

\* the loop test of present_encrypt of the library variant
LibLoopPc(r) == IF r <= LIB_PRESENT_ROUND_COUNT THEN "add" ELSE "final"

\* memcpy(subkey, p_key, PRESENT_KEY_SIZE); round = 1; first loop test
LibCopyKey ==
    /\ lib.kind = "lib" /\ lib.pc = "copy"
    /\ lib' = [lib EXCEPT !.subkey = lib.key, !.round = 1, !.pc = LibLoopPc(1)]
    /\ UNCHANGED mainVars

LibAddKey ==
    /\ lib.kind = "lib" /\ lib.pc = "add"
    /\ lib' = [lib EXCEPT !.text = lib_present_add_key(lib.text, lib.subkey), !.pc = "sub"]
    /\ UNCHANGED mainVars

LibSubstitution ==
    /\ lib.kind = "lib" /\ lib.pc = "sub"
    /\ lib' = [lib EXCEPT !.text = lib_present_substitution(lib.text), !.pc = "perm"]
    /\ UNCHANGED mainVars

LibPermutation ==
    /\ lib.kind = "lib" /\ lib.pc = "perm"
    /\ lib' = [lib EXCEPT !.text = lib_present_permutation(lib.text), !.pc = "upd"]
    /\ UNCHANGED mainVars

\* present_update_key(subkey, round); round++; loop test
LibUpdateKey ==
    /\ lib.kind = "lib" /\ lib.pc = "upd"
    /\ lib' = [lib EXCEPT !.subkey = lib_present_update_key(lib.subkey, lib.round),
                          !.round = Incr8(lib.round),
                          !.pc = LibLoopPc(Incr8(lib.round))]
    /\ UNCHANGED mainVars

\* the last present_add_key and the return: subkey dies
LibFinalAddKey ==
    /\ lib.kind = "lib" /\ lib.pc = "final"
    /\ lib' = [lib EXCEPT !.text = lib_present_add_key(lib.text, lib.subkey),
                          !.subkey = NoBuf, !.pc = "done"]
    /\ UNCHANGED mainVars

LibNext ==
    \/ Preprocess
    \/ Call
    \/ Entry
    \/ CopyKey
    \/ EncAddKey
    \/ EncSubstitution
    \/ EncPermutation
    \/ EncUpdateKey
    \/ EncFinalAddKey
    \/ LibCopyKey
    \/ LibAddKey
    \/ LibSubstitution
    \/ LibPermutation
    \/ LibUpdateKey
    \/ LibFinalAddKey

LibSpec == LibInit /\ [][LibNext]_vars

(***************************************************************************)
(* Properties                                                              *)
(***************************************************************************)
ValidArgs == ~pTextNull /\ ~pKeyNull

ValidRounds == roundCount \in PRESENT_ROUND_COUNT_MIN..PRESENT_ROUND_COUNT_MAX

\* both calls of the script have returned
BothReturned == pc = "caller" /\ Len(log) = 2 /\ log[2].out # NoBuf

\* the call in progress or just finished, if any
LastCall == log[Len(log)]

\* an ENCRYPT call with this plaintext and key has returned this ciphertext
EncryptReturned(pt, k, ct) ==
    \E i \in 1..Len(log) : /\ log[i].op = "ENCRYPT"
                           /\ log[i].in = pt
                           /\ log[i].out = ct
                           /\ mem.key = k

\* C1: in the 80-bit build with 1 <= N <= 31, present_encrypt followed by
\* present_decrypt with the same key leaves the text block equal to the
\* original block.
C1_DecryptInvertsEncrypt80 ==
    (keyBits = 80 /\ ValidRounds /\ BothReturned /\ log[1].op = "ENCRYPT")
        => (mem.text = orig.text /\ log[2].op = "DECRYPT" /\ log[2].out = log[1].in)

C1_Witness ==
    /\ keyBits = 80 /\ roundCount = 31 /\ BothReturned
    /\ log[1].op = "ENCRYPT" /\ log[1].in = GenText(1) /\ log[1].out # log[1].in
    /\ mem.key = GenKey(1, 80) /\ mem.text = GenText(1)

\* C2: for every N in 1..31 (N = 1 and N = 31 included) present_decrypt
\* followed by present_encrypt with the same key leaves the text block equal
\* to the original block.
C2_EncryptInvertsDecrypt ==
    (ValidRounds /\ BothReturned /\ log[1].op = "DECRYPT")
        => (mem.text = orig.text /\ log[2].op = "ENCRYPT" /\ log[2].out = log[1].in)

C2_Witness ==
    /\ roundCount = 1 /\ BothReturned
    /\ log[1].op = "DECRYPT" /\ log[1].in = GenText(1) /\ log[1].out # log[1].in
    /\ mem.text = GenText(1)

\* C3: with the 80-bit key and 31 rounds present_encrypt maps the four
\* published vectors to the published ciphertexts, byte for byte.
C3_EncryptTestVectors ==
    (keyBits = 80 /\ roundCount = 31) =>
        \A i \in 1..Len(log) :
            (log[i].op = "ENCRYPT" /\ log[i].out # NoBuf) =>
                /\ (log[i].in = Plain0 /\ mem.key = Key0(80)) => log[i].out = Cipher1
                /\ (log[i].in = Plain0 /\ mem.key = KeyF(80)) => log[i].out = Cipher2
                /\ (log[i].in = PlainF /\ mem.key = Key0(80)) => log[i].out = Cipher3
                /\ (log[i].in = PlainF /\ mem.key = KeyF(80)) => log[i].out = Cipher4

C3_Witness ==
    /\ keyBits = 80 /\ roundCount = 31 /\ Len(log) = 1 /\ pc = "caller"
    /\ EncryptReturned(PlainF, KeyF(80), Cipher4)

\* C4: with the 80-bit key and 31 rounds present_decrypt maps each of the
\* four published ciphertexts under its key back to the plaintext.
C4_DecryptTestVectors ==
    (keyBits = 80 /\ roundCount = 31) =>
        \A i \in 1..Len(log) :
            (log[i].op = "DECRYPT" /\ log[i].out # NoBuf) =>
                /\ (log[i].in = Cipher1 /\ mem.key = Key0(80)) => log[i].out = Plain0
                /\ (log[i].in = Cipher2 /\ mem.key = KeyF(80)) => log[i].out = Plain0
                /\ (log[i].in = Cipher3 /\ mem.key = Key0(80)) => log[i].out = PlainF
                /\ (log[i].in = Cipher4 /\ mem.key = KeyF(80)) => log[i].out = PlainF

C4_Witness ==
    /\ keyBits = 80 /\ roundCount = 31 /\ Len(log) = 2 /\ pc = "caller"
    /\ log[2].op = "DECRYPT" /\ log[2].in = Cipher3 /\ log[2].out = PlainF
    /\ mem.key = Key0(80)

\* C5: the caller's key buffer is never written: at every step of a call and
\* on return it holds the bytes it held at entry.
C5_KeyBufferUnchanged == mem.key = orig.key

C5_Witness ==
    /\ pc = "d_add" /\ round = 2 /\ roundCount = PRESENT_ROUND_COUNT_MAX
    /\ mem.subkey # NoBuf /\ mem.subkey # mem.key /\ mem.key = GenKey(1, keyBits)

\* C6: in the 128-bit build present_decrypt undoes present_encrypt with the
\* same key on every text block.
C6_DecryptInvertsEncrypt128 ==
    (keyBits = 128 /\ ValidRounds /\ BothReturned /\ log[1].op = "ENCRYPT")
        => (mem.text = orig.text /\ log[2].op = "DECRYPT" /\ log[2].out = log[1].in)

C6_Witness ==
    /\ keyBits = 128 /\ roundCount = 31 /\ BothReturned
    /\ log[1].op = "ENCRYPT" /\ log[1].in = GenText(1) /\ log[1].out # log[1].in
    /\ mem.key = GenKey(1, 128) /\ mem.text = GenText(1)

\* C7: with non-NULL buffers and a round count in 1..31 no ASSERT fails:
\* every round counter handed to present_update_key (encrypt loop, pre-walk,
\* decrypt loop) lies in 1..31, and assert_failed is never entered.
C7_NoAssertFails ==
    (ValidArgs /\ ValidRounds) =>
        /\ pc # "assert_failed"
        /\ pc \in {"e_upd", "gen", "d_upd"} =>
              /\ round \in PRESENT_ROUND_COUNT_MIN..PRESENT_ROUND_COUNT_MAX
              /\ op \in {"ENCRYPT", "DECRYPT"}

C7_Witness ==
    /\ ValidArgs /\ roundCount = PRESENT_ROUND_COUNT_MAX
    /\ pc = "d_upd" /\ round = PRESENT_ROUND_COUNT_MAX
\* C8: a configured round count outside 1..31 is rejected at construction,
\* so no call completes and yields an output under such a round count.
C8_InvalidRoundCountRejected ==
    ~RoundCountInRange(roundCount) => \A i \in 1..Len(log) : log[i].out = NoBuf

\* C9: a call with a NULL text or key pointer fails before touching any
\* data: the key is not copied and no byte of the caller's buffers changes.
C9_NullFailsBeforeTouchingData ==
    (pTextNull \/ pKeyNull) =>
        /\ mem.text = orig.text
        /\ mem.key = orig.key
        /\ mem.subkey = NoBuf
        /\ pc \in {"caller", "entry", "assert_failed"}

C9_Witness ==
    /\ pKeyNull /\ ~pTextNull /\ pc = "assert_failed"
    /\ Len(log) = 1 /\ LastCall.out = NoBuf /\ mem.text = orig.text

\* C10 (as claimed): after a failed ASSERT the call hands control back to
\* the caller.
C10_FailureReturnsToCaller == (pc = "assert_failed") ~> (pc = "caller")

\* C10 (amended): a failed ASSERT is neither recovered nor handed back: once
\* assert_failed is entered control stays there, the failed call never
\* returns, no later call is made and no buffer changes.
C10_FailureNeverReturns ==
    [][pc = "assert_failed" =>
          /\ pc' = "assert_failed"
          /\ mem' = mem /\ log' = log /\ script' = script /\ op' = op]_vars

C10_Witness ==
    /\ pc = "assert_failed" /\ ValidArgs
    /\ op = "ENCRYPT" /\ round = PRESENT_ROUND_COUNT_MAX + 1 /\ mem.text # orig.text

\* the number of executed layers f of the running (or last) call
Count(f) == Cardinality({i \in 1..Len(steps) : steps[i].f = f})

\* the last call has returned
Returned == pc = "caller" /\ Len(log) > 0 /\ LastCall.out # NoBuf

\* the step counts of a returned call, as functions of the round count only
StepCounts ==
    (ValidRounds /\ Returned) =>
        IF LastCall.op = "ENCRYPT"
        THEN /\ Count("update_key") = roundCount
             /\ Count("substitution") = roundCount
             /\ Count("permutation") = roundCount
             /\ Count("add_key") = roundCount + 1
             /\ Len(steps) = 4 * roundCount + 1
        ELSE /\ Count("generate_key") = roundCount
             /\ Count("update_key_rev") = roundCount
             /\ Count("substitution_inv") = roundCount
             /\ Count("permutation_inv") = roundCount
             /\ Count("add_key") = roundCount + 1
             /\ Len(steps) = 5 * roundCount + 1

\* C12: every call with valid buffers and N in 1..31 terminates, and its
\* steps depend on N only: encrypt runs N iterations and one final add-key,
\* decrypt runs N pre-walk updates, one add-key and N iterations.
C12_TerminatesInFixedSteps ==
    /\ []StepCounts
    /\ (ValidArgs /\ ValidRounds /\ pc = "entry") ~> (pc = "caller")

C12_Witness ==
    /\ roundCount = PRESENT_ROUND_COUNT_MAX /\ Returned /\ LastCall.op = "DECRYPT"
    /\ LastCall.in = GenText(1) /\ Len(steps) = 156

\* C13: no state is kept across calls: two calls of one run with the same
\* operation, text and key return the same text, whatever was called before.
C13_NoStateAcrossCalls ==
    \A i, j \in 1..Len(log) :
        (log[i].op = log[j].op /\ log[i].in = log[j].in
            /\ log[i].out # NoBuf /\ log[j].out # NoBuf) => log[i].out = log[j].out

C13_Witness ==
    /\ Len(log) = 3 /\ Returned /\ ValidRounds
    /\ log[3].op = log[1].op /\ log[3].in = log[1].in /\ log[1].in = GenText(1)
    /\ log[2].op # log[1].op /\ log[2].out # log[2].in /\ log[3].out = log[1].out

\* bit i of a buffer: bit (i mod 8) of byte (i div 8)
BitAt(buf, i) == (buf[i \div 8] \div Pow2(i % 8)) % 2

\* nibble n of a buffer: the low (n even) or high (n odd) half of byte (n div 2)
NibbleAt(buf, n) == (buf[n \div 2] \div (IF n % 2 = 0 THEN 1 ELSE 16)) % 16

\* the bit permutation of PRESENT and the map the claims give for its inverse
P(i) == IF i = 63 THEN 63 ELSE (16 * i) % 63

PInv(j) == IF j = 63 THEN 63 ELSE (4 * j) % 63

\* the probe applied exactly the functions fs, in this order
Applied(fs) == fx.kind # "idle" /\ fx.fs = fs

\* C14: present_encrypt_permutation moves the bit at position i to position
\* P(i) = 16*i mod 63 (63 stays), for all 64 positions of every state.
C14_EncryptPermutationIsP ==
    Applied(<<"encrypt_permutation">>) =>
        \A i \in 0..63 : BitAt(fx.vals[2], P(i)) = BitAt(fx.vals[1], i)

C14_Witness ==
    /\ Applied(<<"encrypt_permutation">>)
    /\ BitAt(fx.vals[1], 5) = 1 /\ fx.vals[1] \in OneBitTexts
    /\ BitAt(fx.vals[2], 17) = 1

\* C15: present_decrypt_permutation is the inverse of the encrypt
\* permutation, applied after it or before it; it moves the bit at position
\* j to position 4*j mod 63 (63 stays).
C15_DecryptPermutationInverts ==
    /\ Applied(<<"decrypt_permutation">>) =>
          \A j \in 0..63 : BitAt(fx.vals[2], PInv(j)) = BitAt(fx.vals[1], j)
    /\ Applied(<<"encrypt_permutation", "decrypt_permutation">>) => fx.vals[3] = fx.vals[1]
    /\ Applied(<<"decrypt_permutation", "encrypt_permutation">>) => fx.vals[3] = fx.vals[1]

C15_Witness ==
    /\ Applied(<<"encrypt_permutation", "decrypt_permutation">>)
    /\ fx.vals[1] = GenText(1) /\ fx.vals[2] # fx.vals[1] /\ fx.vals[3] = fx.vals[1]

\* C16: present_substitution replaces each of the 16 nibbles by its image
\* under S (ENCRYPT) or under the inverse table (DECRYPT); an output nibble
\* is a function of the input nibble at the same place only.
C16_SubstitutionPerNibble ==
    /\ Applied(<<"substitution_ENCRYPT">>) =>
          \A n \in 0..15 : NibbleAt(fx.vals[2], n) = g_sbox[NibbleAt(fx.vals[1], n)]
    /\ Applied(<<"substitution_DECRYPT">>) =>
          \A n \in 0..15 : NibbleAt(fx.vals[2], n) = g_sbox_inv[NibbleAt(fx.vals[1], n)]

C16_Witness ==
    /\ Applied(<<"substitution_DECRYPT">>)
    /\ fx.vals[1] = GenText(1)
    /\ NibbleAt(fx.vals[2], 3) = g_sbox_inv[NibbleAt(fx.vals[1], 3)]
    /\ NibbleAt(fx.vals[2], 3) # g_sbox[NibbleAt(fx.vals[1], 3)]

\* C17: g_sbox and g_sbox_inv are bijections of 0..15 and inverse to each
\* other, and present_substitution with DECRYPT undoes present_substitution
\* with ENCRYPT on every state.
C17_SboxesMutuallyInverse ==
    /\ fx.kind # "idle" =>
          /\ \A x \in 0..15 : g_sbox_inv[g_sbox[x]] = x /\ g_sbox[g_sbox_inv[x]] = x
          /\ {g_sbox[x] : x \in 0..15} = 0..15
          /\ {g_sbox_inv[x] : x \in 0..15} = 0..15
    /\ Applied(<<"substitution_ENCRYPT", "substitution_DECRYPT">>) => fx.vals[3] = fx.vals[1]

C17_Witness ==
    /\ Applied(<<"substitution_ENCRYPT", "substitution_DECRYPT">>)
    /\ fx.vals[1] = PlainF /\ fx.vals[2] # fx.vals[1] /\ fx.vals[3] = PlainF

\* C18: present_add_key turns text[j] into text[j] XOR key[KEY_SIZE-8+j] for
\* j in 0..7; the key bytes below KEY_SIZE-8 have no influence and the key
\* register is left as it was.
C18_AddKeyXorsTopBytes ==
    Applied(<<"add_key">>) =>
        /\ \A j \in 0..7 : \A b \in 0..7 :
              BitAt(fx.vals[2], 8 * j + b) =
                  (BitAt(fx.vals[1], 8 * j + b)
                     + BitAt(fx.key, 8 * (fx.bits \div 8 - 8 + j) + b)) % 2
        /\ fx.key \in KeyInputs(fx.bits)

C18_Witness ==
    /\ Applied(<<"add_key">>) /\ fx.bits = 80
    /\ fx.key = GenKey(1, 80) /\ fx.vals[1] = GenText(1)
    /\ fx.vals[2] # fx.vals[1]

\* C19: in the 80-bit build present_rotate_key_left maps the register K to
\* ((K << 61) | (K >> 19)) mod 2^80: bit i of K becomes bit (i + 61) mod 80.
C19_RotateKeyLeft80 ==
    (Applied(<<"rotate_key_left">>) /\ fx.bits = 80) =>
        \A i \in 0..79 : BitAt(fx.vals[2], (i + 61) % 80) = BitAt(fx.vals[1], i)

C19_Witness ==
    /\ Applied(<<"rotate_key_left">>) /\ fx.bits = 80
    /\ fx.vals[1] \in OneBitKeys(80) /\ BitAt(fx.vals[1], 20) = 1
    /\ BitAt(fx.vals[2], 1) = 1

\* the 80-bit register K rotated left by 61 bits, bit by bit
Rot61(K) == [j \in 0..79 |-> BitAt(K, (j + 19) % 80)]

\* the four bits Rot61(K)[79..76] as a number
TopNibble80(R) == R[76] + 2 * R[77] + 4 * R[78] + 8 * R[79]

\* C20: in the 80-bit build present_update_encrypt_key(K, r), r in 1..31,
\* rotates K left by 61, replaces K[79..76] by S(K[79..76]), leaves K[75..72]
\* as rotated, XORs the 5 bits of r into K[19..15], and changes no other bit
\* of the rotated register.
C20_UpdateEncryptKey80 ==
    (Applied(<<"update_encrypt_key">>) /\ fx.bits = 80) =>
        \A j \in 0..79 :
            BitAt(fx.vals[2], j) =
                IF j >= 76
                THEN (g_sbox[TopNibble80(Rot61(fx.vals[1]))] \div Pow2(j - 76)) % 2
                ELSE IF j \in 15..19
                THEN (Rot61(fx.vals[1])[j] + ((fx.r \div Pow2(j - 15)) % 2)) % 2
                ELSE Rot61(fx.vals[1])[j]

C20_Witness ==
    /\ Applied(<<"update_encrypt_key">>) /\ fx.bits = 80
    /\ fx.r = 21 /\ fx.vals[1] = GenKey(1, 80)
    /\ NibbleAt(fx.vals[2], 18) = NibbleAt(present_rotate_key_left(fx.vals[1], 80), 18)
    /\ NibbleAt(fx.vals[2], 19) # NibbleAt(present_rotate_key_left(fx.vals[1], 80), 19)

\* what the call of thread t returns when it runs alone
Alone(t) ==
    IF thr.call[t].op = "ENCRYPT"
    THEN present_encrypt(thr.arg[t], thr.mem.key, thr.count, thr.bits)
    ELSE present_decrypt(thr.arg[t], thr.mem.key, thr.count, thr.bits)

\* C11: two calls, any mix of encrypt and decrypt, running concurrently on
\* two text buffers and interleaved in any way each leave in their buffer
\* the result the same call gives alone, and neither writes the key.
C11_ConcurrentCallsIndependent ==
    thr.kind = "conc" =>
        /\ \A t \in Threads : thr.call[t].pc = "done" => thr.mem.text[t] = Alone(t)
        /\ \A t \in Threads : thr.call[t].pc = "copy" => thr.mem.text[t] = thr.arg[t]
        /\ thr.mem.key = GenKey(1, thr.bits)

C11_Witness ==
    /\ thr.kind = "conc" /\ thr.mixed /\ thr.count = MaxConcRounds
    /\ thr.call[1].pc = "done" /\ thr.call[2].pc = "done"
    /\ thr.call[1].op = "ENCRYPT" /\ thr.call[2].op = "DECRYPT"
    /\ thr.mem.text[1] = Alone(1) /\ thr.mem.text[2] = Alone(2)
    /\ thr.mem.text[1] # thr.arg[1] /\ thr.mem.text[2] # thr.arg[2]

\* C21: in the 128-bit build present_rotate_key_left is the cyclic left
\* rotation by 61 bits of the register of eight 16-bit words: bit i becomes
\* bit (i + 61) mod 128; buffer size 5, LSB offset 5, MSB offset 4, rotation
\* point 3 and 4 unrotated blocks.
C21_RotateKeyLeft128 ==
    (Applied(<<"rotate_key_left">>) /\ fx.bits = 128) =>
        /\ \A i \in 0..127 : BitAt(fx.vals[2], (i + 61) % 128) = BitAt(fx.vals[1], i)
        /\ PRESENT_KEY_BLOCK_SIZE(fx.bits) = 8
        /\ PRESENT_ROTATE_BUFF_SIZE_LEFT(fx.bits) = 5
        /\ PRESENT_ROTATION_LSB_OFFSET(fx.bits) = 5
        /\ PRESENT_ROTATION_MSB_OFFSET(fx.bits) = 4
        /\ PRESENT_ROTATION_POINT_LEFT = 3
        /\ PRESENT_UNROTATED_BLOCK_COUNT_LEFT(fx.bits) = 4

C21_Witness ==
    /\ Applied(<<"rotate_key_left">>) /\ fx.bits = 128
    /\ fx.vals[1] \in OneBitKeys(128) /\ BitAt(fx.vals[1], 100) = 1
    /\ BitAt(fx.vals[2], 33) = 1

\* the 128-bit register K rotated left by 61 bits, bit by bit
Rot61_128(K) == [j \in 0..127 |-> BitAt(K, (j + 67) % 128)]

\* four bits of a rotated register, from bit lo upwards, as a number
NibbleFrom(R, lo) == R[lo] + 2 * R[lo + 1] + 4 * R[lo + 2] + 8 * R[lo + 3]

\* C22: in the 128-bit build present_update_encrypt_key(K, r), r in 1..31,
\* rotates K, replaces K[127..124] and K[123..120] each by its image under S,
\* XORs r into K[66..62] and changes no other bit of the rotated register.
C22_UpdateEncryptKey128 ==
    (Applied(<<"update_encrypt_key">>) /\ fx.bits = 128) =>
        \A j \in 0..127 :
            BitAt(fx.vals[2], j) =
                IF j >= 124
                THEN (g_sbox[NibbleFrom(Rot61_128(fx.vals[1]), 124)] \div Pow2(j - 124)) % 2
                ELSE IF j >= 120
                THEN (g_sbox[NibbleFrom(Rot61_128(fx.vals[1]), 120)] \div Pow2(j - 120)) % 2
                ELSE IF j \in 62..66
                THEN (Rot61_128(fx.vals[1])[j] + ((fx.r \div Pow2(j - 62)) % 2)) % 2
                ELSE Rot61_128(fx.vals[1])[j]

C22_Witness ==
    /\ Applied(<<"update_encrypt_key">>) /\ fx.bits = 128
    /\ fx.r = 21 /\ fx.vals[1] = GenKey(1, 128)
    /\ NibbleAt(fx.vals[2], 30) # NibbleAt(present_rotate_key_left(fx.vals[1], 128), 30)
    /\ NibbleAt(fx.vals[2], 31) # NibbleAt(present_rotate_key_left(fx.vals[1], 128), 31)
    /\ fx.vals[2][7] # present_rotate_key_left(fx.vals[1], 128)[7]

\* C23: for the same round counter r in 1..31 and in both key widths the
\* reverse key update undoes the forward key update, and the forward update
\* undoes the reverse one.
C23_UpdateKeyInverse ==
    /\ Applied(<<"update_encrypt_key", "update_decrypt_key">>) => fx.vals[3] = fx.vals[1]
    /\ Applied(<<"update_decrypt_key", "update_encrypt_key">>) => fx.vals[3] = fx.vals[1]

C23_Witness ==
    /\ Applied(<<"update_decrypt_key", "update_encrypt_key">>)
    /\ fx.bits = 128 /\ fx.r = PRESENT_ROUND_COUNT_MAX
    /\ fx.vals[1] = GenKey(1, 128) /\ fx.vals[2] # fx.vals[1] /\ fx.vals[3] = fx.vals[1]

\* the number of set bits among the first n bits of a buffer
PopCount(buf, n) == Cardinality({i \in 0..(n - 1) : BitAt(buf, i) = 1})

\* a buffer of the full register width
IsRegister(buf, bits) ==
    /\ DOMAIN buf = 0..(bits \div 8 - 1)
    /\ \A k \in DOMAIN buf : buf[k] \in 0..255

\* C24: in both key widths rotation right undoes rotation left and rotation
\* left undoes rotation right; a rotated register keeps its width of 10 or
\* 16 bytes and its number of set bits; present_rotate_key_right moves bit i
\* to bit (i - 61) mod width.
C24_RotationCyclic ==
    /\ Applied(<<"rotate_key_left", "rotate_key_right">>) => fx.vals[3] = fx.vals[1]
    /\ Applied(<<"rotate_key_right", "rotate_key_left">>) => fx.vals[3] = fx.vals[1]
    /\ (Applied(<<"rotate_key_left">>) \/ Applied(<<"rotate_key_right">>)) =>
          /\ IsRegister(fx.vals[2], fx.bits)
          /\ PopCount(fx.vals[2], fx.bits) = PopCount(fx.vals[1], fx.bits)
    /\ Applied(<<"rotate_key_right">>) =>
          \A i \in 0..(fx.bits - 1) :
              BitAt(fx.vals[2], (i + fx.bits - 61) % fx.bits) = BitAt(fx.vals[1], i)

C24_Witness ==
    /\ Applied(<<"rotate_key_right", "rotate_key_left">>) /\ fx.bits = 128
    /\ fx.vals[1] = GenKey(1, 128) /\ fx.vals[2] # fx.vals[1] /\ fx.vals[3] = fx.vals[1]
    /\ PopCount(fx.vals[2], 128) = PopCount(fx.vals[1], 128) /\ PopCount(fx.vals[1], 128) > 0

\* call i of the run has returned
ReturnedCall(i, o) == log[i].op = o /\ log[i].out # NoBuf

\* the caller is between two calls of a build with valid arguments
BetweenCalls == pc = "caller" /\ ValidArgs /\ ValidRounds

\* the layer at place m of an iteration of the loop of present_encrypt
EncStepName(m) ==
    CASE m = 0 -> "add_key" [] m = 1 -> "substitution"
      [] m = 2 -> "permutation" [] m = 3 -> "update_key"

\* the steps st are those of an encryption with N rounds of key: in rounds
\* 1..N add-key, substitution, permutation, forward update with the round
\* number, then one add-key; the register starts as key and changes by the
\* forward updates only
EncryptOrder(st, key, N, bits) ==
    /\ Len(st) = 4 * N + 1
    /\ \A i \in 1..Len(st) :
          /\ st[i].f = EncStepName((i - 1) % 4)
          /\ st[i].r = (i - 1) \div 4 + 1
          /\ st[i].k = IF i = 1 THEN key
                       ELSE IF (i - 1) % 4 = 0
                       THEN present_update_encrypt_key(st[i - 1].k, (i - 1) \div 4, bits)
                       ELSE st[i - 1].k
    /\ Cardinality({i \in 1..Len(st) : st[i].f = "add_key"}) = N + 1

\* C25: present_encrypt with round count N runs, for r = 1..N in increasing
\* order, add-key, substitution, permutation and the forward key update with
\* counter r, then one final add-key: N+1 add-keys, the k-th with the
\* caller's key after k-1 forward updates.
C25_EncryptStepOrder ==
    BetweenCalls =>
        \A i \in 1..Len(log) :
            ReturnedCall(i, "ENCRYPT") => EncryptOrder(log[i].steps, mem.key, roundCount, keyBits)

C25_Witness ==
    /\ BetweenCalls /\ roundCount = PRESENT_ROUND_COUNT_MAX /\ Len(log) = 1
    /\ ReturnedCall(1, "ENCRYPT") /\ mem.key = GenKey(1, keyBits)
    /\ Len(log[1].steps) = 125 /\ log[1].steps[125].f = "add_key"
    /\ log[1].steps[125].k # mem.key /\ log[1].steps[124].f = "update_key"

\* C26: in present_decrypt, when present_generate_decrypt_key has returned,
\* the working register is the one present_encrypt with the same key and
\* round count uses for its final add-key: the caller's key advanced by the
\* forward update with counters 1..N in increasing order.
C26_PreWalkReachesLastKey ==
    (pc = "d_first" /\ ValidArgs /\ ValidRounds) =>
        /\ \A i \in 1..Len(log) :
              ReturnedCall(i, "ENCRYPT") => mem.subkey = log[i].steps[Len(log[i].steps)].k
        /\ Len(steps) = roundCount
        /\ \A i \in 1..Len(steps) :
              /\ steps[i].f = "generate_key" /\ steps[i].r = i
              /\ steps[i].k = IF i = 1 THEN mem.key
                              ELSE present_update_encrypt_key(steps[i - 1].k, i - 1, keyBits)
        /\ mem.subkey = present_update_encrypt_key(steps[roundCount].k, roundCount, keyBits)

C26_Witness ==
    /\ pc = "d_first" /\ ValidArgs /\ roundCount = PRESENT_ROUND_COUNT_MAX
    /\ Len(log) = 2 /\ ReturnedCall(1, "ENCRYPT") /\ mem.key = GenKey(1, keyBits)
    /\ mem.subkey = log[1].steps[125].k /\ mem.subkey # mem.key

\* the layer at place m of an iteration of the loop of present_decrypt
DecStepName(m) ==
    CASE m = 0 -> "permutation_inv" [] m = 1 -> "substitution_inv"
      [] m = 2 -> "update_key_rev" [] m = 3 -> "add_key"

\* the steps st are those of a decryption with N rounds: N pre-walk updates,
\* one add-key with the pre-walked register, then for r = N..1 inverse
\* permutation, inverse substitution, reverse update with counter r and
\* add-key with the updated register
DecryptOrder(st, N, bits) ==
    /\ Len(st) = 5 * N + 1
    /\ \A i \in 1..Len(st) :
          IF i <= N THEN st[i].f = "generate_key" /\ st[i].r = i
          ELSE IF i = N + 1
          THEN /\ st[i].f = "add_key"
               /\ st[i].k = present_update_encrypt_key(st[N].k, N, bits)
          ELSE /\ st[i].f = DecStepName((i - N - 2) % 4)
               /\ st[i].r = N - (i - N - 2) \div 4
               /\ st[i].k = IF (i - N - 2) % 4 = 3
                            THEN present_update_decrypt_key(st[i - 1].k, st[i].r, bits)
                            ELSE st[i - 1].k

\* C27: present_decrypt with round count N runs one add-key with the
\* pre-walked register, then for r = N..1 in decreasing order inverse
\* permutation, inverse substitution, the reverse key update with counter r
\* and add-key with the updated register.
C27_DecryptStepOrder ==
    BetweenCalls =>
        \A i \in 1..Len(log) :
            ReturnedCall(i, "DECRYPT") => DecryptOrder(log[i].steps, roundCount, keyBits)

C27_Witness ==
    /\ BetweenCalls /\ roundCount = PRESENT_ROUND_COUNT_MAX /\ Len(log) = 1
    /\ ReturnedCall(1, "DECRYPT") /\ mem.key = GenKey(1, keyBits)
    /\ Len(log[1].steps) = 156 /\ log[1].steps[33].f = "permutation_inv"
    /\ log[1].steps[33].r = 31 /\ log[1].steps[155].f = "update_key_rev"
    /\ log[1].steps[155].r = 1

\* the register of the add-key that starts round r of an encryption
EncRoundKey(st, r) == st[4 * (r - 1) + 1].k

\* the register of the add-key that ends iteration r of a decryption with N rounds
DecRoundKey(st, r, N) == st[N + 1 + 4 * (N - r) + 4].k

\* C28: the key walk of present_decrypt retraces the one of present_encrypt:
\* the register XORed in at the end of iteration r of present_decrypt is the
\* register K_r that present_encrypt XORs in at the start of round r, and
\* when present_decrypt returns its register is the caller's key.
C28_KeyWalkRetraced ==
    BetweenCalls =>
        \A j \in 1..Len(log) :
            ReturnedCall(j, "DECRYPT") =>
                /\ log[j].steps[Len(log[j].steps)].k = mem.key
                /\ \A i \in 1..Len(log) :
                      ReturnedCall(i, "ENCRYPT") =>
                          \A r \in 1..roundCount :
                              DecRoundKey(log[j].steps, r, roundCount)
                                  = EncRoundKey(log[i].steps, r)

C28_Witness ==
    /\ BetweenCalls /\ roundCount = PRESENT_ROUND_COUNT_MAX /\ Len(log) = 2
    /\ ReturnedCall(1, "ENCRYPT") /\ ReturnedCall(2, "DECRYPT")
    /\ mem.key = GenKey(1, keyBits) /\ keyBits = 128
    /\ DecRoundKey(log[2].steps, 17, 31) = EncRoundKey(log[1].steps, 17)
    /\ EncRoundKey(log[1].steps, 17) # mem.key
    /\ log[2].steps[156].k = mem.key

\* the registers left by the key updates of the call of thread t, in order
KeyWalk(t) == thr.call[t].keys

\* C29: the key schedule does not depend on the text: two present_encrypt
\* (or two present_decrypt) calls with the same key and different texts leave
\* the same register after each of their key updates.
C29_KeyScheduleIgnoresText ==
    (thr.kind = "conc" /\ thr.call[1].op = thr.call[2].op /\ thr.arg[1] # thr.arg[2]) =>
        \A i \in 1..Len(KeyWalk(1)) :
            i <= Len(KeyWalk(2)) => KeyWalk(1)[i] = KeyWalk(2)[i]

C29_Witness ==
    /\ thr.kind = "conc" /\ thr.count = MaxConcRounds /\ thr.arg[1] # thr.arg[2]
    /\ thr.call[1].op = "DECRYPT" /\ thr.call[2].op = "DECRYPT"
    /\ thr.call[1].pc = "done" /\ thr.call[2].pc = "done"
    /\ thr.mem.text[1] # thr.mem.text[2]
    /\ Len(KeyWalk(1)) = 2 * MaxConcRounds /\ KeyWalk(1) = KeyWalk(2)
    /\ KeyWalk(1)[MaxConcRounds] # thr.mem.key

\* the position of the library variant that corresponds to a position of
\* present_encrypt of the main variant
LibPcOf(p) ==
    CASE p = "e_add" -> "add" [] p = "e_sub" -> "sub" [] p = "e_perm" -> "perm"
      [] p = "e_upd" -> "upd" [] p = "e_final" -> "final" [] OTHER -> "none"

\* both variants stand at the same statement of the same round
SamePlace == lib.kind = "lib" /\ lib.pc = LibPcOf(pc) /\ lib.round = round

\* both variants have returned
BothDone == lib.kind = "lib" /\ lib.pc = "done" /\ Returned

\* C30: the encrypt-only library variant and the main variant built for the
\* 80-bit key and 31 rounds compute the same function: equal outputs for
\* every text and key, and equal state and working register after every
\* round (at every common statement of every round).
C30_LibraryVariantAgrees ==
    /\ SamePlace => (lib.text = mem.text /\ lib.subkey = mem.subkey)
    /\ BothDone => lib.text = LastCall.out

C30_Witness ==
    /\ BothDone /\ LastCall.in = Plain0 /\ mem.key = Key0(80)
    /\ lib.text = Cipher1 /\ LastCall.out = Cipher1

=============================================================================
